---- MODULE Spec2Model ----
(***************************************************************************)
(* Model of wordlebot.py: the constraint grid (Grid) and the solver loop   *)
(* (WordleBot.play).  Words are sequences of one-character strings.        *)
(***************************************************************************)
EXTENDS Integers, Sequences, FiniteSets, TLC

VARIABLES
    word,              \* Grid.word: the target, fixed for one grid
    dictionary,        \* the word list read from data/possible_words.txt
    allowed_words,     \* Grid.allowed_words: the candidate list
    cells,             \* Grid._cells: the five position domains
    letter_min_count,  \* Grid.letter_min_count (a Counter: absent key = 0)
    letter_max_count,  \* Grid.letter_max_count
    op,                \* the last operation completed on the grid
    guess,             \* the guess argument of the last feedback/propagate call
    feedback,          \* the feedback argument of the last propagate call
    raised,            \* TRUE iff the last call ended by raising an error
    calls,             \* number of propagate_constraints() calls made so far
    attempts,          \* play(): the local attempts
    guesses,           \* play(): the guesses printed so far, in order
    pc,                \* play(): "idle", "loop" or "done"
    result             \* play(): the value returned (0 while not returned)

gridvars == <<allowed_words, cells, letter_min_count, letter_max_count>>
vars == <<word, dictionary, allowed_words, cells, letter_min_count,
          letter_max_count, op, guess, feedback, raised, calls, attempts,
          guesses, pc, result>>

---------------------------------------------------------------------------
(* Bounds of the model *)

\* number of words of the enumerated word pool that inputs are drawn from
NumWords == 12
\* number of propagate_constraints() calls explored on a free-standing grid
MaxCalls == 2

---------------------------------------------------------------------------
(* Program constants *)

complete_domain ==
    {"a","b","c","d","e","f","g","h","i","j","k","l","m",
     "n","o","p","q","r","s","t","u","v","w","x","y","z"}

Width == 5

max_attempts == 6

\* LETTER_DISTRIBUTION, in tenths
LETTER_DISTRIBUTION ==
    [ch \in complete_domain |->
        CASE ch = "a" -> 82  [] ch = "b" -> 15 [] ch = "c" -> 28 [] ch = "d" -> 43
          [] ch = "e" -> 127 [] ch = "f" -> 22 [] ch = "g" -> 20 [] ch = "h" -> 61
          [] ch = "i" -> 70  [] ch = "j" -> 2  [] ch = "k" -> 8  [] ch = "l" -> 40
          [] ch = "m" -> 24  [] ch = "n" -> 67 [] ch = "o" -> 75 [] ch = "p" -> 19
          [] ch = "q" -> 1   [] ch = "r" -> 60 [] ch = "s" -> 63 [] ch = "t" -> 91
          [] ch = "u" -> 28  [] ch = "v" -> 10 [] ch = "w" -> 24 [] ch = "x" -> 2
          [] ch = "y" -> 20  [] ch = "z" -> 1]

OpeningGuess == <<"s","a","l","e","t">>

AllGreen == <<"G","G","G","G","G">>

---------------------------------------------------------------------------
(* Helpers *)

Min(a, b) == IF a < b THEN a ELSE b

\* collections.Counter(seq): occurrences of every letter, 0 when absent
Counter(seq) ==
    [ch \in complete_domain |-> Cardinality({i \in DOMAIN seq : seq[i] = ch})]

---------------------------------------------------------------------------
(* Grid.feedback *)

\* first loop: greens, and the target positions they use
GreenPass(g, target) ==
    [fb   |-> [i \in 1..Width |-> IF g[i] = target[i] THEN "G" ELSE ""],
     used |-> [i \in 1..Width |-> g[i] = target[i]]]

\* second loop, from position i on: yellows and blacks, left to right
RECURSIVE YellowPass(_, _, _, _, _)
YellowPass(i, fb, used, g, target) ==
    IF i > Width THEN fb
    ELSE IF fb[i] # "" THEN YellowPass(i + 1, fb, used, g, target)
    ELSE LET free == {j \in 1..Width : target[j] = g[i] /\ ~used[j]}
         IN  IF free # {}
             THEN LET j == CHOOSE k \in free : \A m \in free : k <= m
                  IN  YellowPass(i + 1, [fb EXCEPT ![i] = "Y"],
                                 [used EXCEPT ![j] = TRUE], g, target)
             ELSE YellowPass(i + 1, [fb EXCEPT ![i] = "B"], used, g, target)

\* a feedback that marks 'Y' without consuming the target position it found
FeedbackNoConsume(g, target) ==
    [i \in 1..Width |->
        IF g[i] = target[i] THEN "G"
        ELSE IF \E j \in 1..Width : target[j] = g[i] /\ g[j] # target[j] THEN "Y"
        ELSE "B"]

Feedback(g, target) ==
    LET p == GreenPass(g, target)
    IN  YellowPass(1, p.fb, p.used, g, target)

---------------------------------------------------------------------------
(* Grid.propagate_constraints *)

\* zip(feedback, guess) stops at the shorter of the two
ZipLen(g, fb) == Min(Len(g), Len(fb))

\* a count that forgets the yellow copies
GreenCountOnly(g, fb) ==
    [ch \in complete_domain |->
        Cardinality({i \in 1..ZipLen(g, fb) : g[i] = ch /\ fb[i] = "G"})]

\* green_yellow_count: copies of each letter marked 'G' or 'Y'
GreenYellowCount(g, fb) ==
    [ch \in complete_domain |->
        Cardinality({i \in 1..ZipLen(g, fb) : g[i] = ch /\ fb[i] \in {"G", "Y"}})]

\* minimum counts are raised to the green/yellow count, never lowered
RaiseMin(mins, gy) ==
    [ch \in complete_domain |-> IF gy[ch] > mins[ch] THEN gy[ch] ELSE mins[ch]]

\* greens: the position's domain is assigned the singleton
ApplyGreens(cs, g, fb) ==
    [i \in 1..Width |->
        IF i <= ZipLen(g, fb) /\ fb[i] = "G" THEN {g[i]} ELSE cs[i]]

\* yellows that leave the domains as they are
ApplyYellowsKeep(cs, g, fb) == cs

\* yellows: the letter is discarded from that position's domain
ApplyYellows(cs, g, fb) ==
    [i \in 1..Width |->
        IF i <= ZipLen(g, fb) /\ fb[i] = "Y" THEN cs[i] \ {g[i]} ELSE cs[i]]

\* a discard that does not spare the domains holding one letter
DiscardEverywhereUnguarded(cs, ch) == [pos \in 1..Width |-> cs[pos] \ {ch}]

\* the inner loop of a black: discard ch from every domain holding more than one letter
DiscardEverywhere(cs, ch) ==
    [pos \in 1..Width |-> IF Cardinality(cs[pos]) > 1 THEN cs[pos] \ {ch} ELSE cs[pos]]

\* a cap that takes a black letter to be absent from the word
CapMaxAtZero(maxs, ch, gy) == [maxs EXCEPT ![ch] = 0]

\* the maximum count of a black letter is capped at its green/yellow count
CapMax(maxs, ch, gy) == [maxs EXCEPT ![ch] = Min(maxs[ch], gy[ch])]

\* blacks, from position i on, in order
RECURSIVE ApplyBlacks(_, _, _, _, _, _)
ApplyBlacks(i, cs, maxs, g, fb, gy) ==
    IF i > ZipLen(g, fb) THEN [cells |-> cs, maxs |-> maxs]
    ELSE IF fb[i] = "B" /\ gy[g[i]] < Counter(g)[g[i]]
         THEN ApplyBlacks(i + 1, DiscardEverywhere(cs, g[i]),
                          CapMax(maxs, g[i], gy),
                          g, fb, gy)
         ELSE ApplyBlacks(i + 1, cs, maxs, g, fb, gy)

\* the whole method: the new domains and count bounds
PropagateConstraints(cs, mins, maxs, g, fb) ==
    LET gy == GreenYellowCount(g, fb)
        b  == ApplyBlacks(1, ApplyYellows(ApplyGreens(cs, g, fb), g, fb), maxs, g, fb, gy)
    IN  [cells |-> b.cells, mins |-> RaiseMin(mins, gy), maxs |-> b.maxs]

---------------------------------------------------------------------------
(* Grid.prune_words *)

DomainsAllow(w, cs) == \A i \in 1..Width : w[i] \in cs[i]

MinCountsAllow(w, mins) ==
    LET word_letter_count == Counter(w)
    IN  \A ch \in complete_domain : ~(word_letter_count[ch] < mins[ch])

MaxCountsAllow(w, maxs) ==
    LET word_letter_count == Counter(w)
    IN  \A ch \in complete_domain : ~(word_letter_count[ch] > maxs[ch])

\* a validity test that forgets the minimum counts
ValidNoMin(w, cs, mins, maxs) == DomainsAllow(w, cs) /\ MaxCountsAllow(w, maxs)

Valid(w, cs, mins, maxs) ==
    DomainsAllow(w, cs) /\ MinCountsAllow(w, mins) /\ MaxCountsAllow(w, maxs)

\* a prune that removes from the list it iterates, so that the word after a
\* removed word is never tested
RECURSIVE PruneInPlace(_, _, _, _)
PruneInPlace(ws, cs, mins, maxs) ==
    IF ws = <<>> THEN <<>>
    ELSE IF Valid(Head(ws), cs, mins, maxs)
         THEN <<Head(ws)>> \o PruneInPlace(Tail(ws), cs, mins, maxs)
         ELSE IF Len(ws) = 1 THEN <<>>
              ELSE <<ws[2]>> \o PruneInPlace(Tail(Tail(ws)), cs, mins, maxs)

\* the loop over allowed_words, appending the valid words to possible_words
RECURSIVE PruneWords(_, _, _, _)
PruneWords(ws, cs, mins, maxs) ==
    IF ws = <<>> THEN <<>>
    ELSE IF Valid(Head(ws), cs, mins, maxs)
         THEN <<Head(ws)>> \o PruneWords(Tail(ws), cs, mins, maxs)
         ELSE PruneWords(Tail(ws), cs, mins, maxs)

---------------------------------------------------------------------------
(* Grid.is_solved, WordleBot.rank_guess *)

IsSolved(cs) == \A i \in 1..Width : Cardinality(cs[i]) = 1

RECURSIVE SumWeights(_)
SumWeights(S) ==
    IF S = {} THEN 0
    ELSE LET c == CHOOSE x \in S : TRUE
         IN  LETTER_DISTRIBUTION[c] + SumWeights(S \ {c})

\* a rank that adds the weight of every letter of the word, repeated or not
RECURSIVE RankGuessRepeats(_)
RankGuessRepeats(w) ==
    IF w = <<>> THEN 0 ELSE LETTER_DISTRIBUTION[Head(w)] + RankGuessRepeats(Tail(w))

\* sum of the weights over set(word)
RankGuess(w) == SumWeights({w[i] : i \in DOMAIN w})

\* max(allowed_words, key=rank_guess): the first word of maximal rank
MaxByRank(ws) ==
    LET best == CHOOSE i \in DOMAIN ws :
                    /\ \A j \in DOMAIN ws : RankGuess(ws[j]) <= RankGuess(ws[i])
                    /\ \A j \in 1..(i - 1) : RankGuess(ws[j]) < RankGuess(ws[i])
    IN  ws[best]

---------------------------------------------------------------------------
(* Inputs: the words that targets, guesses and dictionaries are drawn from *)

\* the n-th word of the pool, n >= 0: its letter at place i is "s" or "a" as
\* bit i of 11 * n is 1 or 0, so that the first 2^Width words are all the words
\* over {a, s}; the later ones carry one "e"
PoolWord(n) ==
    [i \in 1..Width |->
        IF n >= 2^Width /\ i = (n % Width) + 1 THEN "e"
        ELSE IF ((11 * n) \div 2^(i - 1)) % 2 = 1 THEN "s" ELSE "a"]

WordList == [n \in 1..NumWords |-> PoolWord(n - 1)]

Words == {WordList[n] : n \in 1..NumWords}

Without(ws, w) == SelectSeq(ws, LAMBDA x : x # w)

\* the words at the odd places of the word list
OddWords == [n \in 1..((NumWords + 1) \div 2) |-> WordList[2 * n - 1]]

\* four words that, with the opening guess, use 25 distinct letters
Pangram ==
    << <<"b","c","d","f","g">>, <<"h","i","j","k","m">>,
       <<"n","o","p","q","r">>, <<"u","v","w","x","y">> >>

AllZ == <<"z","z","z","z","z">>

\* words that differ in their first letter only
Family ==
    << <<"b","s","s","s","s">>, <<"c","s","s","s","s">>, <<"u","s","s","s","s">>,
       <<"d","s","s","s","s">>,
       <<"f","s","s","s","s">>, <<"g","s","s","s","s">>, <<"h","s","s","s","s">>,
       <<"j","s","s","s","s">> >>

Targets == Words \cup {OpeningGuess, AllZ, Family[Len(Family)]}

GridDictionaries == {WordList}

PlayDictionaries(target) ==
    {WordList, Without(WordList, target), OddWords, Pangram,
     Append(Pangram, AllZ), Family, <<>>}

---------------------------------------------------------------------------
(* Grid.__init__ *)

GridInit(target, dict) ==
    /\ word = target
    /\ dictionary = dict
    /\ allowed_words = dict
    /\ cells = [i \in 1..Width |-> complete_domain]
    /\ letter_min_count = [ch \in complete_domain |-> 0]
    /\ letter_max_count = [ch \in complete_domain |-> 5]
    /\ op = "init"
    /\ guess = <<>>
    /\ feedback = <<>>
    /\ raised = FALSE
    /\ calls = 0
    /\ attempts = 0
    /\ guesses = <<>>
    /\ result = 0

Init ==
    /\ \E target \in Targets : \E dict \in GridDictionaries : GridInit(target, dict)
    /\ pc = "idle"

PlayInit ==
    /\ \E target \in Targets : \E dict \in PlayDictionaries(target) : GridInit(target, dict)
    /\ pc = "loop"

playvars == <<attempts, guesses, pc, result>>

---------------------------------------------------------------------------
(* Operations on a free-standing grid *)

\* propagate_constraints(g, fb): the method never raises
DoPropagate(g, fb) ==
    LET r == PropagateConstraints(cells, letter_min_count, letter_max_count, g, fb)
    IN  /\ cells' = r.cells
        /\ letter_min_count' = r.mins
        /\ letter_max_count' = r.maxs
        /\ guess' = g
        /\ feedback' = fb
        /\ raised' = FALSE
        /\ calls' = calls + 1

\* one round's first half: feedback(g) against the target, then propagate_constraints
Propagate(g) ==
    /\ pc = "idle"
    /\ calls < MaxCalls
    /\ DoPropagate(g, Feedback(g, word))
    /\ op' = "propagate"
    /\ UNCHANGED <<word, dictionary, allowed_words, playvars>>

\* prune_words()
Prune ==
    /\ pc = "idle"
    /\ allowed_words' = PruneWords(allowed_words, cells, letter_min_count, letter_max_count)
    /\ op' = "prune"
    /\ UNCHANGED <<word, dictionary, cells, letter_min_count, letter_max_count,
                   guess, feedback, raised, calls, playvars>>

\* feedback strings a caller may pass that are not five tokens of G, Y, B
Malformed(good) ==
    {SubSeq(good, 1, Len(good) - 1), Append(good, "G")}
        \cup {[i \in DOMAIN good |-> IF i = k THEN "X" ELSE good[i]] : k \in {1, Len(good)}}

\* propagate_constraints(g, fb) called with a malformed feedback string
PropagateMalformed(g, fb) ==
    /\ pc = "idle"
    /\ calls < MaxCalls
    /\ DoPropagate(g, fb)
    /\ op' = "malformed"
    /\ UNCHANGED <<word, dictionary, allowed_words, playvars>>

Next ==
    \/ \E g \in Words \cup {OpeningGuess} : Propagate(g)
    \/ Prune

Spec == Init /\ [][Next]_vars

RawNext ==
    \/ \E g \in Words \cup {OpeningGuess} : Propagate(g)
    \/ Prune
    \/ \E g \in Words \cup {OpeningGuess} :
          \E bad \in Malformed(Feedback(g, word)) : PropagateMalformed(g, bad)

RawSpec == Init /\ [][RawNext]_vars

---------------------------------------------------------------------------
(* WordleBot.play, one action per statement group of the loop body.  pc is   *)
(* the position in play(): "loop" (line 221), "feedback" (line 241),        *)
(* "propagate" (line 250), "prune" (line 251), "done" (returned).           *)

\* a loop that runs once more
LoopConditionOffByOne == attempts <= max_attempts

\* while attempts < max_attempts
LoopCondition == attempts < max_attempts

\* an attempt counter that is not incremented before the return
AttemptsNotIncremented == attempts

\* attempts += 1
AttemptsAfterGuess == attempts + 1

\* is_solved() at the top of the loop: return attempts
PlaySolvedByGrid ==
    /\ pc = "loop"
    /\ LoopCondition
    /\ IsSolved(cells)
    /\ result' = attempts
    /\ pc' = "done"
    /\ UNCHANGED <<word, dictionary, gridvars, op, guess, feedback, raised, calls,
                   attempts, guesses>>

\* no candidate left: return 7
PlayNoWords ==
    /\ pc = "loop"
    /\ LoopCondition
    /\ ~IsSolved(cells)
    /\ Len(allowed_words) = 0
    /\ result' = 7
    /\ pc' = "done"
    /\ UNCHANGED <<word, dictionary, gridvars, op, guess, feedback, raised, calls,
                   attempts, guesses>>

\* the guess of this iteration
ChooseGuess == IF attempts = 0 THEN OpeningGuess ELSE MaxByRank(allowed_words)

\* lines 234-239: choose the guess
PlayGuess ==
    /\ pc = "loop"
    /\ LoopCondition
    /\ ~IsSolved(cells)
    /\ Len(allowed_words) # 0
    /\ guess' = ChooseGuess
    /\ pc' = "feedback"
    /\ UNCHANGED <<word, dictionary, gridvars, op, feedback, raised, calls,
                   attempts, guesses, result>>

\* lines 241-248: feedback, attempts += 1, return attempts on "GGGGG"
PlayFeedback ==
    /\ pc = "feedback"
    /\ feedback' = Feedback(guess, word)
    /\ guesses' = Append(guesses, guess)
    /\ attempts' = AttemptsAfterGuess
    /\ op' = "feedback"
    /\ IF feedback' = AllGreen
       THEN result' = attempts' /\ pc' = "done"
       ELSE result' = result /\ pc' = "propagate"
    /\ UNCHANGED <<word, dictionary, gridvars, guess, raised, calls>>

\* line 250: self.grid.propagate_constraints(guess, feedback)
PlayPropagate ==
    /\ pc = "propagate"
    /\ DoPropagate(guess, feedback)
    /\ op' = "propagate"
    /\ pc' = "prune"
    /\ UNCHANGED <<word, dictionary, allowed_words, attempts, guesses, result>>

\* line 251: self.grid.prune_words()
PlayPrune ==
    /\ pc = "prune"
    /\ allowed_words' = PruneWords(allowed_words, cells, letter_min_count, letter_max_count)
    /\ op' = "prune"
    /\ pc' = "loop"
    /\ UNCHANGED <<word, dictionary, cells, letter_min_count, letter_max_count,
                   guess, feedback, raised, calls, attempts, guesses, result>>

\* the loop condition fails: return 7
PlayGameOver ==
    /\ pc = "loop"
    /\ ~LoopCondition
    /\ result' = 7
    /\ pc' = "done"
    /\ UNCHANGED <<word, dictionary, gridvars, op, guess, feedback, raised, calls,
                   attempts, guesses>>

PlayNext ==
    \/ PlaySolvedByGrid
    \/ PlayNoWords
    \/ PlayGuess
    \/ PlayFeedback
    \/ PlayPropagate
    \/ PlayPrune
    \/ PlayGameOver

\* play() is sequential code: it keeps running until it returns
PlaySpec == PlayInit /\ [][PlayNext]_vars /\ WF_vars(PlayNext)

---------------------------------------------------------------------------
(* Vocabulary of the properties, written without the operators above *)

\* occurrences of letter L in word w
Occ(w, L) == Len(SelectSeq(w, LAMBDA x : x = L))

InList(ws, w) == \E n \in 1..Len(ws) : ws[n] = w

\* copies of L in guess g that feedback fb marks 'G' or 'Y'
Marked(g, fb, L) == Cardinality({i \in 1..Len(g) : g[i] = L /\ fb[i] \in {"G", "Y"}})

WellFormed(g, fb) ==
    Len(fb) = Len(g) /\ \A i \in 1..Len(fb) : fb[i] \in {"G", "Y", "B"}

\* w satisfies the grid's current domains and count bounds
Consistent(w) ==
    /\ \A i \in 1..Width : w[i] \in cells[i]
    /\ \A L \in complete_domain :
          letter_min_count[L] <= Occ(w, L) /\ Occ(w, L) <= letter_max_count[L]

---------------------------------------------------------------------------
(* C1 *)

\* C1 (soundness): a target that is in the dictionary is still in the candidate
\* list after any sequence of propagate_constraints()/prune_words() calls whose
\* feedback was computed against that target.
SoundnessC1 == InList(dictionary, word) => InList(allowed_words, word)

---------------------------------------------------------------------------
(* C2 *)

\* C2 (feedback with duplicate letters): position i is 'G' exactly when the guess
\* and the target agree there; for every letter the number of its copies marked
\* 'G' or 'Y' is the minimum of its occurrences in guess and target; among the
\* copies that are not green the 'Y' marks are the leftmost; and "salet" against
\* "crane" is "BYBYB".
FeedbackC2 ==
    /\ op = "propagate" =>
          /\ WellFormed(guess, feedback)
          /\ \A i \in 1..Width : feedback[i] = "G" <=> guess[i] = word[i]
          /\ \A L \in complete_domain :
                Marked(guess, feedback, L) = Min(Occ(guess, L), Occ(word, L))
          /\ \A i, j \in 1..Width :
                (i < j /\ guess[i] = guess[j] /\ feedback[i] # "G" /\ feedback[j] = "Y")
                    => feedback[i] = "Y"
    /\ Feedback(OpeningGuess, <<"c","r","a","n","e">>) = <<"B","Y","B","Y","B">>

\* a guess with two copies of a letter, the left one yellow and the right one black
WitnessC2 ==
    /\ op = "propagate"
    /\ \E i, j \in 1..Width :
          i < j /\ guess[i] = guess[j] /\ feedback[i] = "Y" /\ feedback[j] = "B"

---------------------------------------------------------------------------
(* C3 *)

\* C3 (monotonicity): a propagate_constraints() call leaves every domain a subset
\* of its previous value, no minimum count lower and no maximum count higher.
MonotonicityC3 ==
    [][(op' = "propagate" /\ calls' = calls + 1) =>
          /\ \A i \in 1..Width : cells'[i] \subseteq cells[i]
          /\ \A L \in complete_domain :
                /\ letter_min_count[L] <= letter_min_count'[L]
                /\ letter_max_count'[L] <= letter_max_count[L]]_vars

---------------------------------------------------------------------------
(* C5 *)

\* C5 (bounds consistency): after every propagate_constraints() call with feedback
\* computed against the target, no letter's minimum count exceeds its maximum count.
BoundsConsistentC5 ==
    \A L \in complete_domain : letter_min_count[L] <= letter_max_count[L]

\* a letter whose count is known exactly and is not zero
WitnessC5 ==
    /\ op = "propagate"
    /\ \E L \in complete_domain :
          letter_min_count[L] >= 1 /\ letter_min_count[L] = letter_max_count[L]

---------------------------------------------------------------------------
(* C6 *)

\* C6 (prune is an exact filter): prune_words() keeps exactly the candidates that
\* satisfy the current domains and count bounds, in their previous order, and
\* changes neither the domains nor the bounds.
PruneExactC6 ==
    [][(op' = "prune" /\ pc = "idle") =>
          /\ allowed_words' = SelectSeq(allowed_words, Consistent)
          /\ UNCHANGED <<cells, letter_min_count, letter_max_count>>]_vars

\* a prune after a guess with a yellow has kept some words and removed others
WitnessC6 ==
    /\ op = "prune"
    /\ pc = "idle"
    /\ \E i \in 1..Len(feedback) : feedback[i] = "Y"
    /\ Len(allowed_words) >= 2
    /\ Len(allowed_words) < Len(dictionary)
    /\ \A n \in 1..Len(allowed_words) : Consistent(allowed_words[n])

---------------------------------------------------------------------------
(* C10 *)

\* C10 (idempotence of pruning): right after prune_words(), another prune_words()
\* returns the same candidate list, word for word.
PruneIdempotentC10 ==
    (op = "prune" /\ pc = "idle") =>
        PruneWords(allowed_words, cells, letter_min_count, letter_max_count)
            = allowed_words

\* a prune that removed several words and kept several
WitnessC10 ==
    /\ op = "prune"
    /\ pc = "idle"
    /\ Len(allowed_words) >= 2
    /\ Len(allowed_words) + 2 <= Len(dictionary)

---------------------------------------------------------------------------
(* C9 *)

\* C9 (malformed feedback is rejected): propagate_constraints() called with a
\* feedback string of the wrong length or with a token other than G, Y, B raises
\* an error and leaves the domains and both count bounds as they were.
MalformedRejectedC9 ==
    [][(op' = "malformed" /\ calls' = calls + 1 /\ ~WellFormed(guess', feedback')) =>
          /\ UNCHANGED <<cells, letter_min_count, letter_max_count>>
          /\ raised']_vars

---------------------------------------------------------------------------
(* C4 *)

\* C4 (termination): play() returns, having made at most 6 guesses, and the
\* value it returns is an attempt count in 1..6 or the sentinel 7, never 0.
TerminationC4 ==
    /\ <>(pc = "done")
    /\ [](/\ Len(guesses) <= 6
          /\ attempts <= 6
          /\ pc = "done" => result \in 1..7)

\* play() has returned 7 after six guesses that did not solve
WitnessC4 ==
    /\ pc = "done"
    /\ result = 7
    /\ Len(guesses) = 6

---------------------------------------------------------------------------
(* C7 *)

\* C7 (exhaustion by empty candidates): when the candidate list is empty after a
\* propagate+prune step of play(), play() makes no further guess and returns 7.
EmptyCandidatesC7 ==
    [][(pc = "loop" /\ calls >= 1 /\ Len(allowed_words) = 0) =>
          (pc' = "done" /\ result' = 7 /\ guesses' = guesses)]_vars

---------------------------------------------------------------------------
(* C8 *)

\* C8 (solved on exact guess): if the n-th guess of play() is the target, its
\* feedback is "GGGGG" and play() returns n at once: that guess is the last one
\* and is followed by no propagate_constraints() and no prune_words().
SolvedOnExactGuessC8 ==
    /\ [](\A n \in 1..Len(guesses) :
             guesses[n] = word =>
                 /\ n = Len(guesses)
                 /\ n <= 6
                 /\ feedback = AllGreen
                 /\ pc = "done"
                 /\ result = n)
    /\ [][(pc = "done" \/ (guesses' # guesses /\ guess = word)) =>
             UNCHANGED <<allowed_words, cells, letter_min_count, letter_max_count,
                         calls, guess>>]_vars

\* play() has returned after guessing the target at its third guess or later
WitnessC8 ==
    /\ pc = "done"
    /\ Len(guesses) >= 3
    /\ guesses[Len(guesses)] = word
    /\ result = Len(guesses)

---------------------------------------------------------------------------
(* C11 *)

\* the score of a word: the weights of the letters of the alphabet that occur in it
RECURSIVE ScoreOver(_, _)
ScoreOver(w, letters) ==
    IF letters = {} THEN 0
    ELSE LET L == CHOOSE x \in letters : TRUE
         IN  (IF Occ(w, L) > 0 THEN LETTER_DISTRIBUTION[L] ELSE 0)
                 + ScoreOver(w, letters \ {L})

Score(w) == ScoreOver(w, complete_domain)

---------------------------------------------------------------------------
(* C12 *)

\* C12 (solved implies guessed): play() returns n in 1..6 only if its n-th guess
\* is the target; for a target that is neither in the dictionary nor the opening
\* guess it returns 7.
SolvedImpliesGuessedC12 ==
    pc = "done" =>
        /\ result \in 1..6 => (result <= Len(guesses) /\ guesses[result] = word)
        /\ (~InList(dictionary, word) /\ word # <<"s","a","l","e","t">>) => result = 7

---------------------------------------------------------------------------
(* C13 *)

\* both count bounds of letter L are the target's count of L
ExactCount(L) ==
    letter_min_count[L] = Occ(word, L) /\ letter_max_count[L] = Occ(word, L)

\* C13 (count bounds bracket the target): after any propagate_constraints() calls
\* with feedback computed against the target, every letter's minimum count is at
\* most, and its maximum count at least, the letter's count in the target; a
\* letter with more copies in a guess than were marked 'G' or 'Y' has both bounds
\* equal to its count in the target, from that call on.
CountsBracketTargetC13 ==
    /\ [](\A L \in complete_domain :
             /\ letter_min_count[L] <= Occ(word, L)
             /\ Occ(word, L) <= letter_max_count[L]
             /\ (op = "propagate" /\ Marked(guess, feedback, L) < Occ(guess, L))
                    => ExactCount(L))
    /\ [][\A L \in complete_domain : ExactCount(L) => ExactCount(L)']_vars

\* a guess with a marked and an unmarked copy of a letter fixed that letter's
\* count, while another letter of the target is still only bounded
WitnessC13 ==
    /\ op = "propagate"
    /\ \E L \in complete_domain :
          /\ Marked(guess, feedback, L) >= 1
          /\ Marked(guess, feedback, L) < Occ(guess, L)
          /\ ExactCount(L)
    /\ \E M \in complete_domain :
          letter_min_count[M] < Occ(word, M) /\ Occ(word, M) < letter_max_count[M]

---------------------------------------------------------------------------
(* C14 *)

\* C14 (progress): after a round of play() whose feedback is not "GGGGG" the
\* guessed word violates the updated constraints and is not in the pruned
\* candidate list; the pruning of a round whose guess was in the list shortens
\* the list; no word is guessed twice.
ProgressC14 ==
    /\ []((pc = "prune" /\ feedback # AllGreen) => ~Consistent(guess))
    /\ []((pc = "loop" /\ calls >= 1) =>
             (~Consistent(guess) /\ ~InList(allowed_words, guess)))
    /\ [](\A i, j \in 1..Len(guesses) : i < j => guesses[i] # guesses[j])
    /\ [][(pc = "prune" /\ InList(allowed_words, guess)) =>
             Len(allowed_words') < Len(allowed_words)]_vars

\* a second or later round has removed its guess, all of whose letters were
\* marked 'G' or 'Y', from a candidate list that is not yet empty
WitnessC14 ==
    /\ pc = "loop"
    /\ Len(guesses) >= 2
    /\ InList(dictionary, guess)
    /\ \A i \in 1..Width : feedback[i] \in {"G", "Y"}
    /\ ~InList(allowed_words, guess)
    /\ Len(allowed_words) >= 1

---------------------------------------------------------------------------
(* C15 *)

\* C15 (domains never empty): in every state of play() each of the five position
\* domains holds at least one letter.
DomainsNonEmptyC15 == \A i \in 1..Width : cells[i] # {}

\* play() has propagated a guess with a green and a black copy of one letter: the
\* green position holds that letter alone and no domain is empty
WitnessC15 ==
    /\ pc = "prune"
    /\ \E i, j \in 1..Width :
          /\ guess[i] = guess[j]
          /\ feedback[i] = "G"
          /\ feedback[j] = "B"
          /\ cells[i] = {guess[i]}
    /\ \A i \in 1..Width : Cardinality(cells[i]) >= 1

====
